---- MODULE Spec2Model ----
(***************************************************************************)
(* Booking-state extraction and the chat request handler of the dental     *)
(* booking agent (src/app/api/chat/route.ts).                              *)
(*                                                                         *)
(* Message contents are TLA+ strings; TLC evaluates Len, SubSeq and \o on  *)
(* strings, so the regular expressions of extractBookingState are          *)
(* modelled character by character as leftmost, greedy, backtracking       *)
(* matchers.  A matcher returns the text it captures, or "" where          *)
(* String.prototype.match returns null (every capture group of the source  *)
(* needs at least one character, so "" is never a real capture).           *)
(***************************************************************************)
EXTENDS Integers, Sequences, FiniteSets, Bags, TLC

(***************************************************************************)
(* Characters and strings                                                  *)
(***************************************************************************)
CharAt(s, i) == SubSeq(s, i, i)

UpperAlphabet == "ABCDEFGHIJKLMNOPQRSTUVWXYZ"
LowerAlphabet == "abcdefghijklmnopqrstuvwxyz"

UpperLetter == {CharAt(UpperAlphabet, i) : i \in 1..Len(UpperAlphabet)}
LowerLetter == {CharAt(LowerAlphabet, i) : i \in 1..Len(LowerAlphabet)}
\* [a-zA-Z]
Letter == UpperLetter \cup LowerLetter
\* \d
Digit == {"0", "1", "2", "3", "4", "5", "6", "7", "8", "9"}
\* \s (the whitespace characters a chat message can hold)
Space == {" ", "\t", "\n", "\r", "\f"}
\* [a-zA-Z\s]
LetterOrSpace == Letter \cup Space
\* [-.\s]
PhoneSep == {"-", "."} \cup Space
\* [a-zA-Z0-9._%+-]
EmailLocal == Letter \cup Digit \cup {".", "_", "%", "+", "-"}
\* [a-zA-Z0-9.-]
EmailDomain == Letter \cup Digit \cup {".", "-"}
\* the characters . does not match
LineTerminator == {"\n", "\r"}

Min(S) == CHOOSE x \in S : \A y \in S : x <= y
Max(S) == CHOOSE x \in S : \A y \in S : x >= y

LowerChar(c) ==
  IF c \in UpperLetter
    THEN CharAt(LowerAlphabet, CHOOSE i \in 1..Len(UpperAlphabet) : CharAt(UpperAlphabet, i) = c)
    ELSE c

\* String.prototype.toLowerCase: every character in lower case (the string
\* is split in halves to keep the recursion shallow)
RECURSIVE toLowerCase(_)
toLowerCase(s) ==
  IF Len(s) = 0 THEN ""
  ELSE IF Len(s) = 1 THEN LowerChar(s)
  ELSE toLowerCase(SubSeq(s, 1, Len(s) \div 2)) \o toLowerCase(SubSeq(s, Len(s) \div 2 + 1, Len(s)))

\* String.prototype.includes, for a non-empty needle
includes(s, needle) ==
  \E i \in 1..(Len(s) - Len(needle) + 1) : SubSeq(s, i, i + Len(needle) - 1) = needle

\* String.prototype.trim
RECURSIVE trimStart(_)
trimStart(s) ==
  IF s # "" /\ CharAt(s, 1) \in Space THEN trimStart(SubSeq(s, 2, Len(s))) ELSE s

RECURSIVE trimEnd(_)
trimEnd(s) ==
  IF s # "" /\ CharAt(s, Len(s)) \in Space THEN trimEnd(SubSeq(s, 1, Len(s) - 1)) ELSE s

trim(s) == trimEnd(trimStart(s))

(***************************************************************************)
(* Regular-expression building blocks                                      *)
(***************************************************************************)
\* Index of the last character of the longest run of characters of class C
\* that starts at i; i - 1 when s[i] is not in C (a greedy C*).
RECURSIVE RunEnd(_, _, _)
RunEnd(s, i, C) ==
  IF i >= 1 /\ i <= Len(s) /\ CharAt(s, i) \in C THEN RunEnd(s, i + 1, C) ELSE i - 1

\* s[i..j] are all of class C (and exist)
AllIn(s, i, j, C) == i >= 1 /\ j <= Len(s) /\ \A k \in i..j : CharAt(s, k) \in C

\* the literal lit (lower case) stands at s[i..], ignoring case (flag i)
LitAt(s, i, lit) ==
  /\ i >= 1
  /\ i + Len(lit) - 1 <= Len(s)
  /\ toLowerCase(SubSeq(s, i, i + Len(lit) - 1)) = lit

(***************************************************************************)
(* Name: namePatterns (route.ts 329-333)                                   *)
(***************************************************************************)
\* \s+([a-zA-Z\s]+) matched at s[j..]: the capture, or "" when it fails.
\* \s+ takes the whole whitespace run and the group the letters and spaces
\* after it; when no letter follows the run, \s+ gives its last character
\* back and the group captures that one whitespace character.
NameTail(s, j) ==
  LET k == RunEnd(s, j, Space)
      e == RunEnd(s, k + 1, LetterOrSpace)
  IN  IF k < j THEN ""
      ELSE IF e >= k + 1 THEN SubSeq(s, k + 1, e)
      ELSE IF k - 1 >= j THEN SubSeq(s, k, k)
      ELSE ""

\* name.*is at s[i..] followed by the tail: .* is greedy, so the last "is"
\* on the line after which the tail matches is the one taken.
NameIsEnds(s, i) ==
  {p \in (i + 4)..Len(s) :
     /\ LitAt(s, p, "is")
     /\ \A k \in (i + 4)..(p - 1) : CharAt(s, k) \notin LineTerminator
     /\ NameTail(s, p + 2) # ""}

\* (?:my name is|i'm|i am|name.*is)\s+([a-zA-Z\s]+) anchored at s[i..]
NameIntroAt(s, i) ==
  IF LitAt(s, i, "my name is") /\ NameTail(s, i + 10) # "" THEN NameTail(s, i + 10)
  ELSE IF LitAt(s, i, "i'm") /\ NameTail(s, i + 3) # "" THEN NameTail(s, i + 3)
  ELSE IF LitAt(s, i, "i am") /\ NameTail(s, i + 4) # "" THEN NameTail(s, i + 4)
  ELSE IF LitAt(s, i, "name") /\ NameIsEnds(s, i) # {} THEN NameTail(s, Max(NameIsEnds(s, i)) + 2)
  ELSE ""

\* /(?:my name is|i'm|i am|name.*is)\s+([a-zA-Z\s]+)/i
NamePatternIntro(s) ==
  LET I == {i \in 1..Len(s) : NameIntroAt(s, i) # ""}
  IN  IF I = {} THEN "" ELSE NameIntroAt(s, Min(I))

\* [a-zA-Z]+\s+[a-zA-Z]+ anchored at s[i..]: index of its last character, 0
\* when it does not match there
TwoWordsEnd(s, i) ==
  LET e1 == RunEnd(s, i, Letter)
      k  == RunEnd(s, e1 + 1, Space)
      e2 == RunEnd(s, k + 1, Letter)
  IN  IF e1 >= i /\ k >= e1 + 1 /\ e2 >= k + 1 THEN e2 ELSE 0

\* /^([a-zA-Z]+\s+[a-zA-Z]+)$/i
NamePatternLine(s) ==
  IF s # "" /\ TwoWordsEnd(s, 1) = Len(s) THEN s ELSE ""

\* /([a-zA-Z]+\s+[a-zA-Z]+)/i
NamePatternAnywhere(s) ==
  LET I == {i \in 1..Len(s) : TwoWordsEnd(s, i) # 0}
  IN  IF I = {} THEN "" ELSE SubSeq(s, Min(I), TwoWordsEnd(s, Min(I)))

namePatterns(s) == <<NamePatternIntro(s), NamePatternLine(s), NamePatternAnywhere(s)>>

\* extractedName.length >= 2 && /^[a-zA-Z\s]+$/.test(extractedName)
ValidName(extractedName) ==
  Len(extractedName) >= 2 /\ AllIn(extractedName, 1, Len(extractedName), LetterOrSpace)

\* the for loop over namePatterns: the first pattern that matches and whose
\* trimmed capture is valid sets the name; "" when none does
RECURSIVE NameFrom(_, _)
NameFrom(caps, n) ==
  IF n > Len(caps) THEN ""
  ELSE IF caps[n] # "" /\ ValidName(trim(caps[n])) THEN trim(caps[n])
  ELSE NameFrom(caps, n + 1)

ExtractName(content) == NameFrom(namePatterns(content), 1)

(***************************************************************************)
(* Phone: phonePatterns (route.ts 349-354)                                 *)
(***************************************************************************)
\* the text of the leftmost match, given for every i the index End[i] of the
\* last character of the match anchored at i (0 when there is none)
Leftmost(s, End) ==
  LET I == {i \in 1..Len(s) : End[i] # 0}
  IN  IF I = {} THEN "" ELSE SubSeq(s, Min(I), End[Min(I)])

\* \d{n} at s[i..]
DigitsAt(s, i, n) == AllIn(s, i, i + n - 1, Digit)

\* [-.\s]? at s[i..]: 1 when a separator stands there, else 0 (giving the
\* separator back never helps: a digit has to follow)
SepLen(s, i) == IF i <= Len(s) /\ CharAt(s, i) \in PhoneSep THEN 1 ELSE 0

\* /(\d{4}\d{6})/
PhoneTenEnd(s, i) == IF DigitsAt(s, i, 10) THEN i + 9 ELSE 0

\* /(\d{3}[-.\s]?\d{3}[-.\s]?\d{4})/
PhoneGroupedEnd(s, i) ==
  LET a == i + 3 + SepLen(s, i + 3)
      b == a + 3 + SepLen(s, a + 3)
  IN  IF DigitsAt(s, i, 3) /\ DigitsAt(s, a, 3) /\ DigitsAt(s, b, 4) THEN b + 3 ELSE 0

\* \d{lo,hi} greedy at s[i..]: index of its last character, 0 when fewer
\* than lo digits stand there
DigitRunEnd(s, i, lo, hi) ==
  LET e == RunEnd(s, i, Digit)
  IN  IF e - i + 1 < lo THEN 0
      ELSE IF e - i + 1 > hi THEN i + hi - 1
      ELSE e

\* \+\d{n}[-.\s]?\d{8,12} at s[i..] with the country code n digits long
PhoneIntlWith(s, i, n) ==
  IF i <= Len(s) /\ CharAt(s, i) = "+" /\ DigitsAt(s, i + 1, n)
    THEN DigitRunEnd(s, i + 1 + n + SepLen(s, i + 1 + n), 8, 12)
    ELSE 0

\* /(\+\d{1,3}[-.\s]?\d{8,12})/ : \d{1,3} is greedy, 3 digits are tried first
PhoneIntlEnd(s, i) ==
  IF PhoneIntlWith(s, i, 3) # 0 THEN PhoneIntlWith(s, i, 3)
  ELSE IF PhoneIntlWith(s, i, 2) # 0 THEN PhoneIntlWith(s, i, 2)
  ELSE PhoneIntlWith(s, i, 1)

\* /(\d{10,12})/
PhoneBareEnd(s, i) == DigitRunEnd(s, i, 10, 12)

phonePatterns(s) ==
  << Leftmost(s, [i \in 1..Len(s) |-> PhoneTenEnd(s, i)]),
     Leftmost(s, [i \in 1..Len(s) |-> PhoneGroupedEnd(s, i)]),
     Leftmost(s, [i \in 1..Len(s) |-> PhoneIntlEnd(s, i)]),
     Leftmost(s, [i \in 1..Len(s) |-> PhoneBareEnd(s, i)]) >>

\* the first pattern that matches: "" when none does
RECURSIVE FirstMatch(_, _)
FirstMatch(caps, n) ==
  IF n > Len(caps) THEN ""
  ELSE IF caps[n] # "" THEN caps[n]
  ELSE FirstMatch(caps, n + 1)

ExtractPhone(content) == FirstMatch(phonePatterns(content), 1)

(***************************************************************************)
(* Email (route.ts 367)                                                    *)
(***************************************************************************)
\* [a-zA-Z0-9.-]+\.[a-zA-Z]{2,} at s[j..]: the domain run is greedy, so the
\* last dot of the run that two letters follow ends it; then the letters
EmailDomainEnd(s, j) ==
  LET r == RunEnd(s, j, EmailDomain)
      D == {d \in (j + 1)..r : CharAt(s, d) = "." /\ AllIn(s, d + 1, d + 2, Letter)}
  IN  IF D = {} THEN 0 ELSE RunEnd(s, Max(D) + 1, Letter)

\* /[a-zA-Z0-9._%+-]+@[a-zA-Z0-9.-]+\.[a-zA-Z]{2,}/ anchored at s[i..]
EmailEnd(s, i) ==
  LET l == RunEnd(s, i, EmailLocal)
  IN  IF l >= i /\ l + 1 <= Len(s) /\ CharAt(s, l + 1) = "@"
        THEN EmailDomainEnd(s, l + 2)
        ELSE 0

ExtractEmail(content) == Leftmost(content, [i \in 1..Len(content) |-> EmailEnd(content, i)])

(***************************************************************************)
(* Service, date (route.ts 375-400)                                        *)
(***************************************************************************)
\* Object.entries(serviceKeywords), in insertion order
serviceKeywords ==
  << <<"cleaning",  <<"cleaning", "clean">> >>,
     <<"checkup",   <<"checkup", "check-up", "check up", "examination">> >>,
     <<"whitening", <<"whitening", "whiten", "bleaching">> >>,
     <<"filling",   <<"filling", "cavity", "drill">> >>,
     <<"emergency", <<"emergency", "urgent", "pain", "broken tooth">> >> >>

dateKeywords ==
  <<"monday", "tuesday", "wednesday", "thursday", "friday", "tomorrow", "next week">>

\* keywords.some(keyword => lowerContent.includes(keyword))
SomeKeyword(lowerContent, keywords) ==
  \E k \in 1..Len(keywords) : includes(lowerContent, keywords[k])

\* the first service, in the order of the entries, one of whose keywords the
\* message holds
RECURSIVE ServiceFrom(_, _)
ServiceFrom(lowerContent, n) ==
  IF n > Len(serviceKeywords) THEN ""
  ELSE IF SomeKeyword(lowerContent, serviceKeywords[n][2]) THEN serviceKeywords[n][1]
  ELSE ServiceFrom(lowerContent, n + 1)

\* variant: the message is compared word by word, a keyword of two words is
\* never found
RECURSIVE ServiceFrom_SingleWord(_, _)
ServiceFrom_SingleWord(lowerContent, n) ==
  IF n > Len(serviceKeywords) THEN ""
  ELSE IF SomeKeyword(lowerContent,
                      SelectSeq(serviceKeywords[n][2], LAMBDA keyword : ~includes(keyword, " ")))
    THEN serviceKeywords[n][1]
  ELSE ServiceFrom_SingleWord(lowerContent, n + 1)

ExtractService_SingleWord(content) == ServiceFrom_SingleWord(toLowerCase(content), 1)

ExtractService(content) == ServiceFrom(toLowerCase(content), 1)

\* the first date keyword, in the order of the list, that the message holds
RECURSIVE DateFrom(_, _)
DateFrom(lowerContent, n) ==
  IF n > Len(dateKeywords) THEN ""
  ELSE IF includes(lowerContent, dateKeywords[n]) THEN dateKeywords[n]
  ELSE DateFrom(lowerContent, n + 1)

ExtractDate(content) == DateFrom(toLowerCase(content), 1)

(***************************************************************************)
(* Time: timePatterns (route.ts 405-409)                                   *)
(***************************************************************************)
\* \s*(?:am|pm) at s[j..]: index of its last character, 0 when it fails
MeridiemEnd(s, j) ==
  LET k == RunEnd(s, j, Space)
  IN  IF LitAt(s, k + 1, "am") \/ LitAt(s, k + 1, "pm") THEN k + 2 ELSE 0

\* :\d{2} at s[j..]
MinutesAt(s, j) == j <= Len(s) /\ CharAt(s, j) = ":" /\ DigitsAt(s, j + 1, 2)

\* \d{n}(?::\d{2})?\s*(?:am|pm) at s[i..]: the minutes are tried first
TimeMeridiemWith(s, i, n, optionalMinutes) ==
  IF ~DigitsAt(s, i, n) THEN 0
  ELSE IF optionalMinutes /\ MinutesAt(s, i + n) /\ MeridiemEnd(s, i + n + 3) # 0
    THEN MeridiemEnd(s, i + n + 3)
  ELSE MeridiemEnd(s, i + n)

\* /(\d{1,2}(?::\d{2})?\s*(?:am|pm))/i and /(\d{1,2}\s*(?:am|pm))/i :
\* \d{1,2} is greedy, two digits are tried first
TimeMeridiemEnd(s, i, optionalMinutes) ==
  IF TimeMeridiemWith(s, i, 2, optionalMinutes) # 0
    THEN TimeMeridiemWith(s, i, 2, optionalMinutes)
    ELSE TimeMeridiemWith(s, i, 1, optionalMinutes)

\* /(\d{1,2}:\d{2})/i
TimeClockEnd(s, i) ==
  IF DigitsAt(s, i, 2) /\ MinutesAt(s, i + 2) THEN i + 4
  ELSE IF DigitsAt(s, i, 1) /\ MinutesAt(s, i + 1) THEN i + 3
  ELSE 0

timePatterns(s) ==
  << Leftmost(s, [i \in 1..Len(s) |-> TimeMeridiemEnd(s, i, TRUE)]),
     Leftmost(s, [i \in 1..Len(s) |-> TimeMeridiemEnd(s, i, FALSE)]),
     Leftmost(s, [i \in 1..Len(s) |-> TimeClockEnd(s, i)]) >>

ExtractTime(content) == FirstMatch(timePatterns(content), 1)

(***************************************************************************)
(* extractBookingState, determineCurrentStep, updateBookingState           *)
(***************************************************************************)
\* the six fields, in the order determineCurrentStep scans them
Fields ==
  <<"patientName", "phoneNumber", "email", "serviceType", "preferredDate", "preferredTime">>

\* the record extractBookingState starts from
InitialState ==
  [ step |-> 1,
    patientName |-> "",
    phoneNumber |-> "",
    email |-> "",
    serviceType |-> "",
    preferredDate |-> "",
    preferredTime |-> "",
    urgency |-> "routine",
    additionalNotes |-> "",
    isComplete |-> FALSE ]

\* variant: only the latest user message is scanned
userMessages_LatestOnly(messages) ==
  LET users == SelectSeq(messages, LAMBDA msg : msg.role = "user")
  IN  IF users = <<>> THEN <<>> ELSE <<users[Len(users)]>>

\* variant: the role filter is missing
userMessages_AnyRole(messages) == messages

\* messages.filter(msg => msg.role === 'user')
userMessages(messages) == SelectSeq(messages, LAMBDA msg : msg.role = "user")

\* what one message offers for each field: "" where nothing matches
MessageFields(content) ==
  [ patientName |-> ExtractName(content),
    phoneNumber |-> ExtractPhone(content),
    email |-> ExtractEmail(content),
    serviceType |-> ExtractService(content),
    preferredDate |-> ExtractDate(content),
    preferredTime |-> ExtractTime(content) ]

\* variant: the guards on the empty fields are missing, a later message
\* that offers a value overwrites the field
ScanMessage_Overwrite(state, found) ==
  [ state EXCEPT
      !.patientName = IF found.patientName # "" THEN found.patientName ELSE @,
      !.phoneNumber = IF found.phoneNumber # "" THEN found.phoneNumber ELSE @,
      !.email = IF found.email # "" THEN found.email ELSE @,
      !.serviceType = IF found.serviceType # "" THEN found.serviceType ELSE @,
      !.urgency = IF found.serviceType = "emergency" THEN "emergency" ELSE @,
      !.preferredDate = IF found.preferredDate # "" THEN found.preferredDate ELSE @,
      !.preferredTime = IF found.preferredTime # "" THEN found.preferredTime ELSE @ ]

\* position of the first field that is empty in state and offered by found,
\* 0 when there is none
FirstOffered(state, found) ==
  IF state.patientName = "" /\ found.patientName # "" THEN 1
  ELSE IF state.phoneNumber = "" /\ found.phoneNumber # "" THEN 2
  ELSE IF state.email = "" /\ found.email # "" THEN 3
  ELSE IF state.serviceType = "" /\ found.serviceType # "" THEN 4
  ELSE IF state.preferredDate = "" /\ found.preferredDate # "" THEN 5
  ELSE IF state.preferredTime = "" /\ found.preferredTime # "" THEN 6
  ELSE 0

\* variant: the six blocks are chained with else, a message fills one field
ScanMessage_OneField(state, found) ==
  [ state EXCEPT
      !.patientName = IF FirstOffered(state, found) = 1 THEN found.patientName ELSE @,
      !.phoneNumber = IF FirstOffered(state, found) = 2 THEN found.phoneNumber ELSE @,
      !.email = IF FirstOffered(state, found) = 3 THEN found.email ELSE @,
      !.serviceType = IF FirstOffered(state, found) = 4 THEN found.serviceType ELSE @,
      !.urgency =
        IF FirstOffered(state, found) = 4 /\ found.serviceType = "emergency"
          THEN "emergency" ELSE @,
      !.preferredDate = IF FirstOffered(state, found) = 5 THEN found.preferredDate ELSE @,
      !.preferredTime = IF FirstOffered(state, found) = 6 THEN found.preferredTime ELSE @ ]

\* variant: the urgency is raised outside the guard on the empty service
ScanMessage_UrgencyUnguarded(state, found) ==
  [ state EXCEPT
      !.patientName = IF state.patientName = "" THEN found.patientName ELSE @,
      !.phoneNumber = IF state.phoneNumber = "" THEN found.phoneNumber ELSE @,
      !.email = IF state.email = "" THEN found.email ELSE @,
      !.serviceType = IF state.serviceType = "" THEN found.serviceType ELSE @,
      !.urgency = IF found.serviceType = "emergency" THEN "emergency" ELSE @,
      !.preferredDate = IF state.preferredDate = "" THEN found.preferredDate ELSE @,
      !.preferredTime = IF state.preferredTime = "" THEN found.preferredTime ELSE @ ]

\* one turn of the loop over userMessages: a field still empty takes what
\* the message offers, a field already set is left alone
ScanMessage(state, found) ==
  [ state EXCEPT
      !.patientName = IF state.patientName = "" THEN found.patientName ELSE @,
      !.phoneNumber = IF state.phoneNumber = "" THEN found.phoneNumber ELSE @,
      !.email = IF state.email = "" THEN found.email ELSE @,
      !.serviceType = IF state.serviceType = "" THEN found.serviceType ELSE @,
      !.urgency =
        IF state.serviceType = "" /\ found.serviceType = "emergency" THEN "emergency" ELSE @,
      !.preferredDate = IF state.preferredDate = "" THEN found.preferredDate ELSE @,
      !.preferredTime = IF state.preferredTime = "" THEN found.preferredTime ELSE @ ]

\* variant: the step counts the filled fields instead of finding the first
\* empty one
determineCurrentStep_Count(state) ==
  1 + Cardinality({n \in 1..Len(Fields) : state[Fields[n]] # ""})

determineCurrentStep(state) ==
  IF state.patientName = "" THEN 1
  ELSE IF state.phoneNumber = "" THEN 2
  ELSE IF state.email = "" THEN 3
  ELSE IF state.serviceType = "" THEN 4
  ELSE IF state.preferredDate = "" THEN 5
  ELSE IF state.preferredTime = "" THEN 6
  ELSE 7

\* variant: >= for >
CompleteAt_AtLeast(step) == step >= 7

\* state.isComplete = state.step > 7
CompleteAt(step) == step > 7

(***************************************************************************)
(* The messages of the model                                               *)
(***************************************************************************)
\* what the user types or picks from the quick replies (Chatbot.tsx 45, 232-247)
UserContents ==
  { "My name is Anna",
    "Actually call me Bob",
    "I am Bob Stone, 555-123-4567, bob@mail.com",
    "john@example.com",
    "Cleaning on Monday at 10:00 AM",
    "broken tooth tomorrow at 2pm",
    "Yes, confirm",
    "Make changes" }

\* what an assistant turn of the transcript may hold
AssistantContents ==
  { "Is all this information correct? Please confirm by saying yes",
    "I am Doctor Smile, call 5550001111 or dr@smile.io for a checkup on friday at 9am" }

\* the replies of a conversation that gives one field per message, in the
\* order of the steps, and then confirms (spec.md section 8, Chatbot.tsx 45)
ScriptCandidates ==
  { "John Smith", "My name is Anna",
    "555-123-4567", "+1 5551234567",
    "john@example.com", "anna.lee@mail.org",
    "cleaning", "whitening",
    "monday", "tomorrow",
    "10:00 AM", "2pm",
    "yes, confirm" }

Contents == UserContents \cup AssistantContents \cup ScriptCandidates

Roles == {"user", "assistant"}

ContentsOf(role) == IF role = "user" THEN UserContents ELSE AssistantContents

\* the matchers applied once to every content of the model
Found == [c \in Contents |-> MessageFields(c)]
Lowered == [c \in Contents \cup {""} |-> toLowerCase(c)]

FieldsOf(content) == IF content \in DOMAIN Found THEN Found[content] ELSE MessageFields(content)
LowerOf(content) == IF content \in DOMAIN Lowered THEN Lowered[content] ELSE toLowerCase(content)

(***************************************************************************)
(* extractBookingState (route.ts 307-425)                                  *)
(***************************************************************************)
\* for (const message of userMessages), from the n-th message on
RECURSIVE ScanFrom(_, _, _)
ScanFrom(state, msgs, n) ==
  IF n > Len(msgs) THEN state
  ELSE ScanFrom(ScanMessage(state, FieldsOf(msgs[n].content)), msgs, n + 1)

extractBookingState(messages) ==
  LET state == ScanFrom(InitialState, userMessages(messages), 1)
      step  == determineCurrentStep(state)
  IN  [state EXCEPT !.step = step, !.isComplete = CompleteAt(step)]

(***************************************************************************)
(* updateBookingState (route.ts 437-457)                                   *)
(***************************************************************************)
\* a || b on strings
OrElse(a, b) == IF a # "" THEN a ELSE b

\* content.includes('yes') || ... || content.includes('correct'), content
\* being the latest message in lower case
Affirmative(content) ==
  \/ includes(content, "yes")
  \/ includes(content, "confirm")
  \/ includes(content, "book it")
  \/ includes(content, "correct")

\* the test applied once to every content of the model
Confirming == {c \in Contents \cup {""} : Affirmative(Lowered[c])}
Confirms(latestMessage) ==
  IF latestMessage \in DOMAIN Lowered
    THEN latestMessage \in Confirming
    ELSE Affirmative(toLowerCase(latestMessage))

\* newState.step after the fields are merged, before the confirmation test
MergedState(currentState, freshState) ==
  LET merged ==
        [ currentState EXCEPT
            !.patientName = OrElse(freshState.patientName, @),
            !.phoneNumber = OrElse(freshState.phoneNumber, @),
            !.email = OrElse(freshState.email, @),
            !.serviceType = OrElse(freshState.serviceType, @),
            !.preferredDate = OrElse(freshState.preferredDate, @),
            !.preferredTime = OrElse(freshState.preferredTime, @) ]
  IN  [merged EXCEPT !.step = determineCurrentStep(merged)]

\* variant: a confirmed booking moves on to a step 8
updateBookingState_StepEight(currentState, latestMessage, allMessages) ==
  LET newState == MergedState(currentState, extractBookingState(allMessages))
  IN  IF Confirms(latestMessage) /\ newState.step >= 7
        THEN [newState EXCEPT !.isComplete = TRUE, !.step = 8]
        ELSE newState

updateBookingState(currentState, latestMessage, allMessages) ==
  LET newState == MergedState(currentState, extractBookingState(allMessages))
  IN  IF Confirms(latestMessage) /\ newState.step >= 7
        THEN [newState EXCEPT !.isComplete = TRUE]
        ELSE newState

\* messages[messages.length - 1]?.content || '' : a message without content
\* gives ''
LatestContent(messages) ==
  IF messages = <<>> \/ "content" \notin DOMAIN messages[Len(messages)]
    THEN ""
    ELSE messages[Len(messages)].content

(***************************************************************************)
(* What the handler does with a body that is not a list of texts: the      *)
(* request body is parsed JSON and nothing checks it against ChatMessage.  *)
(* A message without content is a record without that field; a content     *)
(* that is not a string comes with a field typeof that names its type.     *)
(***************************************************************************)
\* typeof message.content === 'string'
IsText(message) == "content" \in DOMAIN message /\ "typeof" \notin DOMAIN message

\* firstMessage.slice(0, 10) (64) is a TypeError when the content of the
\* first message is undefined or has no slice method
getSessionIdThrows(messages) == messages # <<>> /\ ~IsText(messages[1])

\* content.toLowerCase() (325) is a TypeError when the content of a user
\* message is undefined or has no toLowerCase method
extractBookingStateThrows(messages) ==
  \E n \in 1..Len(messages) : messages[n].role = "user" /\ ~IsText(messages[n])

\* latestMessage.toLowerCase() (438) is a TypeError when the content of the
\* last message is a non-zero number; undefined has become '' (252)
updateBookingStateThrows(messages) ==
  /\ messages # <<>>
  /\ "content" \in DOMAIN messages[Len(messages)]
  /\ ~IsText(messages[Len(messages)])

\* the call of POST that throws first, "" when none does (211, 215, 252)
ThrownBy(messages) ==
  IF getSessionIdThrows(messages) THEN "getSessionId"
  ELSE IF extractBookingStateThrows(messages) THEN "extractBookingState"
  ELSE IF updateBookingStateThrows(messages) THEN "updateBookingState"
  ELSE ""

(***************************************************************************)
(* The reply (route.ts 176-202, 236-248, 272-286, 473-478)                 *)
(*                                                                         *)
(* A reply is the sequence of the parts the handler concatenates.  Every   *)
(* part after the first starts with "\n\n", so a word the handler looks    *)
(* for in the reply lies within one part.  The texts are the source's,     *)
(* without their emoji and bullet characters.                              *)
(***************************************************************************)
Part(kind, step, text) == [kind |-> kind, step |-> step, text |-> text]

\* getFallbackResponse
FallbackText(bookingState) ==
  CASE bookingState.step = 1 ->
         "Welcome to Dr. Smile! I'm here to help you book an appointment. To get started, could you please tell me your full name?"
    [] bookingState.step = 2 ->
         "Thank you, " \o bookingState.patientName \o
         "! Now I'll need your phone number so we can contact you about your appointment. Please provide your phone number."
    [] bookingState.step = 3 ->
         "Perfect! I have your phone number as " \o bookingState.phoneNumber \o
         ". Next, could you please provide your email address for appointment confirmations?"
    [] bookingState.step = 4 ->
         "Great! I have your email as " \o bookingState.email \o
         ". Now, what type of dental service would you like to book?\n\n Routine Cleaning ($120)\n Comprehensive Checkup ($80)\n Teeth Whitening ($300)\n Dental Fillings ($150-250)\n Emergency Consultation ($200)\n\nWhich service interests you?"
    [] bookingState.step = 5 ->
         "Excellent choice! You've selected " \o bookingState.serviceType \o
         ". Now, which day would work best for you? We're available Monday through Friday. What's your preferred day?"
    [] bookingState.step = 6 ->
         "Perfect! You've chosen " \o bookingState.preferredDate \o
         ". For that day, we have appointments available at:\n 10:00 AM\n 2:00 PM\n 4:00 PM\n\nWhich time slot would you prefer?"
    [] bookingState.step = 7 ->
         "Excellent! Let me confirm your appointment details:\n\n Name: " \o bookingState.patientName \o
         "\n Phone: " \o bookingState.phoneNumber \o
         "\n Email: " \o bookingState.email \o
         "\n Service: " \o bookingState.serviceType \o
         "\n Date: " \o bookingState.preferredDate \o
         "\n Time: " \o bookingState.preferredTime \o
         "\n\nIs all this information correct? Please confirm by saying \"yes\" to book your appointment."
    [] OTHER ->
         "I'm here to help you book your dental appointment. Let's start with your name - what should I call you?"

HighDemandNotice ==
  "\n\n *Our AI is experiencing high demand right now, but I can still help you book your appointment step by step.*"

stepNames == <<"Name", "Phone", "Email", "Service", "Date", "Time", "Confirm">>

\* what addProgressIndicator appends (the bar itself is left out)
ProgressText(step) ==
  "\n\n **Booking Progress:** (" \o ToString(step) \o "/7 - " \o
  (IF step \in 1..Len(stepNames) THEN stepNames[step] ELSE "Complete") \o ")"

CongratulationText(updatedState) ==
  " **Congratulations!** Your appointment has been successfully booked!\n\n **Appointment Summary:**\n Name: "
  \o updatedState.patientName \o
  "\n Phone: " \o updatedState.phoneNumber \o
  "\n Email: " \o updatedState.email \o
  "\n Service: " \o updatedState.serviceType \o
  "\n Date: " \o updatedState.preferredDate \o
  "\n Time: " \o updatedState.preferredTime \o
  "\n\n The doctor has been notified and will contact you soon to confirm the details.\n You should also receive a confirmation email shortly.\n\nThank you for choosing Dr. Smile Dental Clinic! "

EmailWarning ==
  "\n\n Booking saved, but there was an issue sending the notification. Our staff will contact you shortly."

\* the reply of the response with status 500 (301)
TechnicalDifficulties ==
  "I'm experiencing technical difficulties. Please try again in a moment, or call us directly at (555) 123-SMILE for immediate assistance."

\* the text a part stands for
PartText(part, before, after) ==
  CASE part.kind = "llm" -> part.text
    [] part.kind = "fallback" -> FallbackText(before)
    [] part.kind = "notice" -> HighDemandNotice
    [] part.kind = "progress" -> ProgressText(part.step)
    [] part.kind = "congratulations" -> CongratulationText(after)
    [] part.kind = "warning" -> EmailWarning
    [] part.kind = "error" -> TechnicalDifficulties

\* reply.toLowerCase().includes(word): some part holds the word (the parts
\* are looked at last to first)
ReplyIncludes(parts, word, before, after) ==
  \E n \in 1..Len(parts) :
    includes(toLowerCase(PartText(parts[Len(parts) + 1 - n], before, after)), word)

\* data.choices?.[0]?.message?.content of an answered call: "" stands for a
\* response without content
LLMReplies ==
  { "",
    "Thanks! Could you share your phone number?",
    "Your booking is almost done. Please confirm the details." }

\* callOpenRouterWithRetry returns a response, or throws after its retries
\* or when the session's rate limit denies the call
ApiOutcomes ==
  {[ok |-> TRUE, content |-> c] : c \in LLMReplies} \cup {[ok |-> FALSE, content |-> ""]}

\* variant: the fallback text without the notice when the call failed
FirstReply_NoNotice(api, bookingState) ==
  IF api.ok /\ api.content # "" THEN <<Part("llm", 0, api.content)>>
  ELSE <<Part("fallback", bookingState.step, "")>>

\* the reply before the progress indicator is added (route.ts 221-249)
FirstReply(api, bookingState) ==
  IF api.ok /\ api.content # "" THEN <<Part("llm", 0, api.content)>>
  ELSE IF api.ok THEN <<Part("fallback", bookingState.step, "")>>
  ELSE <<Part("fallback", bookingState.step, ""), Part("notice", 0, "")>>

addProgressIndicator(reply, bookingState) == Append(reply, Part("progress", bookingState.step, ""))

\* the condition under which the handler calls sendBookingEmail (260-264)
SendsEmail(updatedState, reply, messages, before) ==
  \/ updatedState.isComplete
  \/ /\ updatedState.step >= 7
     /\ \/ /\ ReplyIncludes(reply, "booking", before, updatedState)
           /\ ReplyIncludes(reply, "confirm", before, updatedState)
        \/ messages # <<>> /\ includes(LowerOf(LatestContent(messages)), "yes")
        \/ messages # <<>> /\ includes(LowerOf(LatestContent(messages)), "confirm")

(***************************************************************************)
(* Per-session rate limiting (route.ts 37-104)                             *)
(***************************************************************************)
MIN_DELAY_BETWEEN_CALLS == 2000
MAX_CALLS_PER_SESSION == 10
SESSION_CLEANUP_INTERVAL == 300000

\* the default of the parameter maxRetries of callOpenRouterWithRetry
maxRetries == 3

\* s.replace(/[^a-zA-Z0-9]/g, '')
RECURSIVE StripNonAlnum(_)
StripNonAlnum(s) ==
  IF s = "" THEN ""
  ELSE (IF CharAt(s, 1) \in Letter \cup Digit THEN CharAt(s, 1) ELSE "")
       \o StripNonAlnum(SubSeq(s, 2, Len(s)))

\* s.slice(0, n)
SliceTo(s, n) == SubSeq(s, 1, Min({n, Len(s)}))

DigitChar(d) == CharAt("0123456789", d + 1)

\* Date.now().toString().slice(-6): the clock of the model counts the
\* milliseconds from a multiple of 1000000, the last six digits are its own
LastSix(t) ==
  DigitChar((t \div 100000) % 10) \o DigitChar((t \div 10000) % 10) \o
  DigitChar((t \div 1000) % 10) \o DigitChar((t \div 100) % 10) \o
  DigitChar((t \div 10) % 10) \o DigitChar(t % 10)

\* getSessionId at time t; random is what Math.random().toString(36)
\* .substring(2, 18) gives when the list is empty
getSessionId(messages, t, random) ==
  IF Len(messages) > 0
    THEN SliceTo(StripNonAlnum(SliceTo(messages[1].content, 10) \o LastSix(t)), 16)
    ELSE random

\* variant: the cap is tested with > in place of >=
checkRateLimit_CapOffByOne(sessions, sessionId, t) ==
  IF sessionId \notin DOMAIN sessions
    THEN [ sessions |-> sessions @@ (sessionId :> [lastApiCall |-> t, callCount |-> 1]),
           canProceed |-> TRUE, delay |-> 0 ]
  ELSE IF sessions[sessionId].callCount > MAX_CALLS_PER_SESSION
    THEN [sessions |-> sessions, canProceed |-> FALSE, delay |-> 0]
  ELSE IF t - sessions[sessionId].lastApiCall < MIN_DELAY_BETWEEN_CALLS
    THEN [ sessions |-> sessions, canProceed |-> FALSE,
           delay |-> MIN_DELAY_BETWEEN_CALLS - (t - sessions[sessionId].lastApiCall) ]
  ELSE [ sessions |->
           [sessions EXCEPT ![sessionId] =
              [lastApiCall |-> t, callCount |-> sessions[sessionId].callCount + 1]],
         canProceed |-> TRUE, delay |-> 0 ]

\* variant: the time since the last call is not looked at
checkRateLimit_NoSpacing(sessions, sessionId, t) ==
  IF sessionId \notin DOMAIN sessions
    THEN [ sessions |-> sessions @@ (sessionId :> [lastApiCall |-> t, callCount |-> 1]),
           canProceed |-> TRUE, delay |-> 0 ]
  ELSE IF sessions[sessionId].callCount >= MAX_CALLS_PER_SESSION
    THEN [sessions |-> sessions, canProceed |-> FALSE, delay |-> 0]
  ELSE [ sessions |->
           [sessions EXCEPT ![sessionId] =
              [lastApiCall |-> t, callCount |-> sessions[sessionId].callCount + 1]],
         canProceed |-> TRUE, delay |-> 0 ]

\* checkRateLimit(sessionId) at time t on the map sessions: the map after
\* the call and the value returned
checkRateLimit(sessions, sessionId, t) ==
  IF sessionId \notin DOMAIN sessions
    THEN [ sessions |-> sessions @@ (sessionId :> [lastApiCall |-> t, callCount |-> 1]),
           canProceed |-> TRUE, delay |-> 0 ]
  ELSE IF sessions[sessionId].callCount >= MAX_CALLS_PER_SESSION
    THEN [sessions |-> sessions, canProceed |-> FALSE, delay |-> 0]
  ELSE IF t - sessions[sessionId].lastApiCall < MIN_DELAY_BETWEEN_CALLS
    THEN [ sessions |-> sessions, canProceed |-> FALSE,
           delay |-> MIN_DELAY_BETWEEN_CALLS - (t - sessions[sessionId].lastApiCall) ]
  ELSE [ sessions |->
           [sessions EXCEPT ![sessionId] =
              [lastApiCall |-> t, callCount |-> sessions[sessionId].callCount + 1]],
         canProceed |-> TRUE, delay |-> 0 ]

\* the body of the cleanup timer (49-56) at time t
CleanedUp(sessions, t) ==
  LET kept == {id \in DOMAIN sessions : ~(t - sessions[id].lastApiCall > SESSION_CLEANUP_INTERVAL)}
  IN  [id \in kept |-> sessions[id]]

(***************************************************************************)
(* callOpenRouterWithRetry (route.ts 107-173).  A request in flight is at  *)
(* one of the awaits of the loop: "rateWait" (115), "fetch" (128),         *)
(* "retryWait" (149) or "backoff" (167); what runs between two awaits is   *)
(* one step.  A step gives the request as it is at the next await, the map *)
(* of the sessions, and the call of checkRateLimit it has made, if any.    *)
(***************************************************************************)
NoCheck == [made |-> FALSE]

Checked(sessions, sessionId, t, result) ==
  [ made |-> TRUE, sessionId |-> sessionId, at |-> t,
    known |-> sessionId \in DOMAIN sessions,
    before |-> IF sessionId \in DOMAIN sessions
                 THEN sessions[sessionId]
                 ELSE [lastApiCall |-> 0, callCount |-> 0],
    after |-> result.sessions[sessionId],
    canProceed |-> result.canProceed,
    delay |-> result.delay ]

\* variant: the catch block waits and goes on after every attempt
Caught_NeverRethrows(request, error, t) ==
  [request EXCEPT !.pc = "backoff", !.wake = t + (2 ^ request.attempt) * 1000]

\* the catch block (156-168) for the error thrown in this attempt: the last
\* attempt throws it to the handler, the others log it and wait 2^attempt
\* seconds
Caught(request, error, t) ==
  IF request.attempt = maxRetries
    THEN [request EXCEPT !.pc = "respond", !.error = error,
                         !.api = [ok |-> FALSE, content |-> ""]]
    ELSE [request EXCEPT !.pc = "backoff", !.wake = t + (2 ^ request.attempt) * 1000]

\* the start of an attempt, up to its first await (110-128)
Attempt(request, sessions, t) ==
  LET rateCheck == checkRateLimit(sessions, request.sessionId, t)
      check == Checked(sessions, request.sessionId, t, rateCheck)
  IN  IF ~rateCheck.canProceed /\ rateCheck.delay > 0
        THEN [ request |-> [request EXCEPT !.pc = "rateWait", !.granted = FALSE,
                                           !.wake = t + rateCheck.delay],
               sessions |-> rateCheck.sessions, check |-> check ]
      ELSE IF ~rateCheck.canProceed
        THEN [ request |-> Caught([request EXCEPT !.granted = FALSE],
                                  "Session has exceeded maximum API calls", t),
               sessions |-> rateCheck.sessions, check |-> check ]
      ELSE [ request |-> [request EXCEPT !.pc = "fetch", !.granted = TRUE],
             sessions |-> rateCheck.sessions, check |-> check ]

\* variant: after the wait the call is made without asking again
Recheck_Skipped(request, sessions, t) ==
  [ request |-> [request EXCEPT !.pc = "fetch"], sessions |-> sessions, check |-> NoCheck ]

\* after the wait for the rate limit (117-128)
Recheck(request, sessions, t) ==
  LET recheckResult == checkRateLimit(sessions, request.sessionId, t)
      check == Checked(sessions, request.sessionId, t, recheckResult)
  IN  IF ~recheckResult.canProceed
        THEN [ request |-> Caught(request, "Rate limit exceeded for this session", t),
               sessions |-> recheckResult.sessions, check |-> check ]
        ELSE [ request |-> [request EXCEPT !.pc = "fetch", !.granted = TRUE],
               sessions |-> recheckResult.sessions, check |-> check ]

\* what fetch may come back with: a response that is ok, with the content of
\* its first choice; a 429 with or without a Retry-After header, in seconds;
\* any other response, or a rejection
FetchOutcomes ==
  {[kind |-> "ok", content |-> c, header |-> FALSE, seconds |-> 0] : c \in LLMReplies}
  \cup {[kind |-> "429", content |-> "", header |-> h, seconds |-> IF h THEN 1 ELSE 0] : h \in BOOLEAN}
  \cup {[kind |-> "error", content |-> "", header |-> FALSE, seconds |-> 0]}

\* when fetch has come back (137-154)
Fetched(request, outcome, sessions, t) ==
  [ request |->
      IF outcome.kind = "ok"
        THEN [request EXCEPT !.pc = "respond", !.api = [ok |-> TRUE, content |-> outcome.content]]
      ELSE IF outcome.kind = "429" /\ request.attempt < maxRetries
        THEN [request EXCEPT !.pc = "retryWait",
                             !.wake = t + (IF outcome.header THEN outcome.seconds * 1000
                                           ELSE (2 ^ request.attempt) * 1000)]
      ELSE Caught(request, "OpenRouter API error", t),
    sessions |-> sessions, check |-> NoCheck ]

\* the next turn of the for loop, after continue (150) or after the catch
\* block has waited (167)
NextAttempt(request, sessions, t) ==
  IF request.attempt + 1 <= maxRetries
    THEN Attempt([request EXCEPT !.attempt = request.attempt + 1], sessions, t)
    \* the loop is left and line 172 throws
    ELSE [ request |-> [request EXCEPT !.pc = "respond", !.error = "Max retries exceeded",
                                       !.api = [ok |-> FALSE, content |-> ""]],
           sessions |-> sessions, check |-> NoCheck ]

(***************************************************************************)
(* The chat widget (Chatbot.tsx 23-77)                                     *)
(***************************************************************************)
\* the waving-hand emoji: two UTF-16 code units, neither a letter nor a
\* digit, written here as two characters of that kind
WavingHand == "^^"

\* the first message of every conversation (24-27)
WelcomeMessage ==
  WavingHand \o " Welcome to Dr. Smile Dental Clinic! I'm your AI booking assistant and I'll help you schedule your appointment step by step.\n\n **Let's get started!**\n\nTo ensure we have all the information needed for your appointment, could you please tell me your full name?"

\* the assistant message of the catch block (74)
ApologyMessage ==
  "I apologize, but I'm having trouble connecting right now. Please try again in a moment or call us directly at (555) 123-SMILE."

\* the delay of the timer that shows the reply (68)
TypingDelay == 1500

\* the state of a widget when it is mounted (23-32); bookingState is null
\* while hasBooking is false; pending holds its requests in flight
InitialWidget ==
  [ messages |-> <<[role |-> "assistant", content |-> WelcomeMessage]>>,
    input |-> "",
    isTyping |-> FALSE,
    hasBooking |-> FALSE,
    bookingState |-> InitialState,
    pending |-> {} ]

\* what the user may put in the input box
Inputs == {"  ", "My name is Anna", "Yes, confirm"}

\* the text of a reply made of parts
RECURSIVE ReplyText(_, _, _)
ReplyText(parts, before, after) ==
  IF parts = <<>> THEN ""
  ELSE PartText(parts[1], before, after) \o ReplyText(Tail(parts), before, after)

(***************************************************************************)
(* State                                                                   *)
(***************************************************************************)
\* longest transcript of a conversation
MaxMsgs == 3
\* longest transcript of the pair compared for assistant-independence
MaxTwin == 3
\* longest transcript of the conversation that gives one field per message
ScriptLen == 7
\* longest body of the client that posts bodies of any shape
MaxRaw == 3
\* requests the server receives
MaxRequests == 2
\* requests of a burst
MaxBurst == 5
\* steps of the clock
MaxTicks == 4
\* calls of callOpenRouterWithRetry followed on their own
MaxCalls == 2
\* chat widgets open at the same time
MaxWidgets == 2
\* messages the user of a widget sends
MaxTurns == 2

Conversations == 1..MaxWidgets

VARIABLES
  messages,           \* the transcript of the conversation, as last posted
  served,             \* a request of the conversation has been answered
  bookingState,       \* POST: extractBookingState(messages)           (215)
  updatedState,       \* POST: updateBookingState(...), sent back      (252)
  reply,              \* POST: the reply sent back, as parts
  apiCallSuccessful,  \* POST: the LLM call answered
  emailAttempted,     \* POST: sendBookingEmail was called             (268)
  emailSent,          \* POST: sendBookingEmail returned               (269)
  emailsSent,         \* booking emails delivered for this conversation
  status,             \* POST: status of the response, 0 before the first
  thrownBy,           \* POST: the call whose exception ended the request
  twin,               \* a second transcript with the same user messages
  rateLimitSessions,  \* the map of the sessions                        (43)
  now,                \* Date.now()
  requests,           \* the requests received, each at its await
  lastCheck,          \* the latest call of checkRateLimit
  allowedAt,          \* per session id, when a call was last allowed
  widgets,            \* per conversation, the state of its chat widget
  posts               \* the requests of the widgets the server has received

vars ==
  << messages, served, bookingState, updatedState, reply, apiCallSuccessful,
     emailAttempted, emailSent, emailsSent, status, thrownBy, twin,
     rateLimitSessions, now, requests, lastCheck, allowedAt, widgets, posts >>

widgetVars == <<widgets, posts>>

serverVars == <<rateLimitSessions, now, requests, lastCheck, allowedAt>>

handlerVars ==
  << served, bookingState, updatedState, reply, apiCallSuccessful,
     emailAttempted, emailSent, emailsSent, status, thrownBy >>

Message(role, content) == [role |-> role, content |-> content]

Init ==
  /\ messages = <<>>
  /\ served = FALSE
  /\ bookingState = InitialState
  /\ updatedState = InitialState
  /\ reply = <<>>
  /\ apiCallSuccessful = FALSE
  /\ emailAttempted = FALSE
  /\ emailSent = FALSE
  /\ emailsSent = 0
  /\ status = 0
  /\ thrownBy = ""
  /\ twin = <<>>
  /\ rateLimitSessions = <<>>
  /\ now = 0
  /\ requests = EmptyBag
  /\ lastCheck = NoCheck
  /\ allowedAt = <<>>
  /\ widgets = [c \in Conversations |-> InitialWidget]
  /\ posts = {}

\* variant: emailSent is set before sendBookingEmail is awaited
Handle_EmailSentEarly(api, mailOk) ==
  /\ bookingState' = extractBookingState(messages')
  /\ updatedState' = updateBookingState(bookingState', LatestContent(messages'), messages')
  /\ apiCallSuccessful' = api.ok
  /\ LET progress == addProgressIndicator(FirstReply(api, bookingState'), updatedState')
     IN  /\ emailAttempted' = SendsEmail(updatedState', progress, messages', bookingState')
         /\ emailAttempted' \/ mailOk
         /\ emailSent' = emailAttempted'
         /\ reply' = IF emailAttempted' /\ mailOk THEN <<Part("congratulations", 0, "")>>
                     ELSE IF emailAttempted' THEN Append(progress, Part("warning", 0, ""))
                     ELSE progress
  /\ emailsSent' = IF emailAttempted' /\ mailOk THEN emailsSent + 1 ELSE emailsSent
  /\ status' = 200
  /\ thrownBy' = ""
  /\ served' = TRUE

\* variant: the record is updated inside the try block, after the LLM call
Handle_UpdateInsideTry(api, mailOk) ==
  /\ bookingState' = extractBookingState(messages')
  /\ updatedState' = IF api.ok
                       THEN updateBookingState(bookingState', LatestContent(messages'), messages')
                       ELSE bookingState'
  /\ apiCallSuccessful' = api.ok
  /\ LET progress == addProgressIndicator(FirstReply(api, bookingState'), updatedState')
     IN  /\ emailAttempted' = SendsEmail(updatedState', progress, messages', bookingState')
         /\ emailAttempted' \/ mailOk
         /\ emailSent' = (emailAttempted' /\ mailOk)
         /\ reply' = IF emailSent' THEN <<Part("congratulations", 0, "")>>
                     ELSE IF emailAttempted' THEN Append(progress, Part("warning", 0, ""))
                     ELSE progress
  /\ emailsSent' = IF emailSent' THEN emailsSent + 1 ELSE emailsSent
  /\ status' = 200
  /\ thrownBy' = ""
  /\ served' = TRUE

(***************************************************************************)
(* POST (route.ts 204-305): the request that carries the transcript        *)
(* messages'.  api is the outcome of callOpenRouterWithRetry and mailOk    *)
(* that of sendBookingEmail; both are external.                            *)
(***************************************************************************)
Handle(api, mailOk) ==
  /\ bookingState' = extractBookingState(messages')
  /\ updatedState' = updateBookingState(bookingState', LatestContent(messages'), messages')
  /\ apiCallSuccessful' = api.ok
  /\ LET progress == addProgressIndicator(FirstReply(api, bookingState'), updatedState')
     IN  /\ emailAttempted' = SendsEmail(updatedState', progress, messages', bookingState')
         \* sendBookingEmail has an outcome only when it is called
         /\ emailAttempted' \/ mailOk
         /\ emailSent' = (emailAttempted' /\ mailOk)
         /\ reply' = IF emailSent' THEN <<Part("congratulations", 0, "")>>
                     ELSE IF emailAttempted' THEN Append(progress, Part("warning", 0, ""))
                     ELSE progress
  /\ emailsSent' = IF emailSent' THEN emailsSent + 1 ELSE emailsSent
  /\ status' = 200
  /\ thrownBy' = ""
  /\ served' = TRUE

\* the outer catch (298-304): the request ends with status 500 and the
\* reply alone; the locals of the try block are lost
Fail(by) ==
  /\ status' = 500
  /\ thrownBy' = by
  /\ reply' = <<Part("error", 0, "")>>
  /\ apiCallSuccessful' = FALSE
  /\ emailAttempted' = FALSE
  /\ emailSent' = FALSE
  /\ served' = TRUE
  /\ UNCHANGED <<bookingState, updatedState, emailsSent>>

\* the client adds a message to the conversation and posts the transcript
Post(role, content, api, mailOk) ==
  /\ Len(messages) < MaxMsgs
  /\ messages' = Append(messages, Message(role, content))
  /\ Handle(api, mailOk)
  /\ UNCHANGED <<twin, serverVars, widgetVars>>

Next ==
  \E role \in Roles : \E content \in ContentsOf(role) :
    \E api \in ApiOutcomes : \E mailOk \in BOOLEAN :
      Post(role, content, api, mailOk)

Spec == Init /\ [][Next]_vars

(***************************************************************************)
(* Two transcripts that hold the same user messages in the same order and  *)
(* differ in their assistant messages                                      *)
(***************************************************************************)
BothUser(content) ==
  /\ Len(messages) < MaxTwin /\ Len(twin) < MaxTwin
  /\ messages' = Append(messages, Message("user", content))
  /\ twin' = Append(twin, Message("user", content))
  /\ UNCHANGED <<handlerVars, serverVars, widgetVars>>

AssistantLeft(content) ==
  /\ Len(messages) < MaxTwin
  /\ messages' = Append(messages, Message("assistant", content))
  /\ UNCHANGED <<twin, handlerVars, serverVars, widgetVars>>

AssistantRight(content) ==
  /\ Len(twin) < MaxTwin
  /\ twin' = Append(twin, Message("assistant", content))
  /\ UNCHANGED <<messages, handlerVars, serverVars, widgetVars>>

NextTwin ==
  \/ \E content \in UserContents : BothUser(content)
  \/ \E content \in AssistantContents : AssistantLeft(content)
  \/ \E content \in AssistantContents : AssistantRight(content)

SpecTwin == Init /\ [][NextTwin]_vars

(***************************************************************************)
(* A conversation whose k-th user message offers the k-th field and no     *)
(* other, and which confirms once the six fields are given                 *)
(***************************************************************************)
\* the candidates that offer the k-th field and nothing else
ScriptContents(k) ==
  {c \in ScriptCandidates :
     \A n \in 1..Len(Fields) : (FieldsOf(c)[Fields[n]] # "") <=> (n = k)}

Scripted(content, api, mailOk) ==
  /\ Len(messages) < ScriptLen
  /\ content \in (IF Len(messages) < Len(Fields)
                    THEN ScriptContents(Len(messages) + 1)
                    ELSE {"yes, confirm"})
  /\ messages' = Append(messages, Message("user", content))
  /\ Handle(api, mailOk)
  /\ UNCHANGED <<twin, serverVars, widgetVars>>

NextScript ==
  \E content \in ScriptCandidates : \E api \in ApiOutcomes : \E mailOk \in BOOLEAN :
    Scripted(content, api, mailOk)

SpecScript == Init /\ [][NextScript]_vars

(***************************************************************************)
(* A client that posts bodies of any shape                                 *)
(***************************************************************************)
\* the messages such a body may hold
RawMessages ==
  << [role |-> "user", content |-> "I am Bob Stone, 555-123-4567, bob@mail.com"],
     [role |-> "user", content |-> "Cleaning on Monday at 10:00 AM"],
     [role |-> "user", content |-> "Yes, confirm"],
     [role |-> "assistant", content |-> "Is all this information correct? Please confirm by saying yes"],
     [role |-> "user"],
     [role |-> "user", content |-> 42, typeof |-> "number"],
     [role |-> "assistant"],
     [role |-> "assistant", content |-> 42, typeof |-> "number"] >>

PostRaw(message, api, mailOk) ==
  /\ Len(messages) < MaxRaw
  /\ messages' = Append(messages, message)
  /\ IF ThrownBy(messages') # ""
       THEN /\ Fail(ThrownBy(messages'))
            \* the outcomes of the calls made later are not seen
            /\ api = [ok |-> FALSE, content |-> ""] /\ mailOk
       ELSE Handle(api, mailOk)
  /\ UNCHANGED <<twin, serverVars, widgetVars>>

NextRaw ==
  \E n \in 1..Len(RawMessages) : \E api \in ApiOutcomes : \E mailOk \in BOOLEAN :
    PostRaw(RawMessages[n], api, mailOk)

SpecRaw == Init /\ [][NextRaw]_vars

(***************************************************************************)
(* The server: the requests in flight share rateLimitSessions and the      *)
(* clock.  A request is answered in the step in which its call of          *)
(* callOpenRouterWithRetry returns or throws: messages and the variables   *)
(* of the handler then hold that request and its response.                 *)
(***************************************************************************)
\* the clock advances by half the minimum delay
TickMs == MIN_DELAY_BETWEEN_CALLS \div 2

\* the request as POST receives it (206-215)
NewRequest(transcript, sessionId, t) ==
  [ pc |-> "start", messages |-> transcript, sessionId |-> sessionId, arrivedAt |-> t,
    attempt |-> 1, wake |-> 0, granted |-> FALSE, error |-> "",
    api |-> [ok |-> FALSE, content |-> ""], record |-> InitialState ]

\* the call of checkRateLimit of a step, with the time at which a call of
\* the session was last allowed before it
Logged(check) ==
  IF check.made
    THEN check @@ [ allowedBefore |-> check.sessionId \in DOMAIN allowedAt,
                    lastAllowed |-> IF check.sessionId \in DOMAIN allowedAt
                                      THEN allowedAt[check.sessionId] ELSE 0 ]
    ELSE check

\* the state after a step within callOpenRouterWithRetry that takes the
\* request from `request` to step.request
Settle(request, step) ==
  /\ rateLimitSessions' = step.sessions
  /\ lastCheck' = Logged(step.check)
  /\ allowedAt' = IF step.check.made /\ step.check.canProceed
                    THEN (step.check.sessionId :> now) @@ allowedAt
                    ELSE allowedAt
  /\ requests' = (requests (-) SetToBag({request})) (+) SetToBag({step.request})
  /\ UNCHANGED <<messages, handlerVars, twin, now, widgetVars>>

\* POST is called (204-235)
Arrive(transcript, random) ==
  LET request == NewRequest(transcript, getSessionId(transcript, now, random), now)
  IN  Settle(request, Attempt(request, rateLimitSessions, now))

\* the timer of line 115 fires
RateWaitOver(request) ==
  /\ request.pc = "rateWait"
  /\ now >= request.wake
  /\ Settle(request, Recheck(request, rateLimitSessions, now))

\* fetch comes back
FetchReturns(request, outcome) ==
  /\ request.pc = "fetch"
  /\ Settle(request, Fetched(request, outcome, rateLimitSessions, now))

\* the timer of line 149 or of line 167 fires
RetryTimerFires(request) ==
  /\ request.pc \in {"retryWait", "backoff"}
  /\ now >= request.wake
  /\ Settle(request, NextAttempt(request, rateLimitSessions, now))

\* callOpenRouterWithRetry has returned or thrown: the handler goes on from
\* line 236 or from line 239 to its response
Respond(request, mailOk) ==
  /\ request.pc = "respond"
  /\ messages' = request.messages
  /\ Handle(request.api, mailOk)
  /\ requests' = (requests (-) SetToBag({request})) (+)
                  SetToBag({[request EXCEPT !.pc = "done", !.wake = 0, !.record = updatedState']})
  /\ lastCheck' = NoCheck
  /\ UNCHANGED <<twin, rateLimitSessions, now, allowedAt, widgetVars>>

\* the requests whose timer is pending
Waiting == {request \in BagToSet(requests) : request.pc \in {"rateWait", "retryWait", "backoff"}}

\* time passes; a timer that is due fires before the clock moves on (it is
\* late by far less than a step of the clock), fetch takes any time
Elapse(d) ==
  /\ \A request \in Waiting : now < request.wake
  /\ now' = now + d
  /\ lastCheck' = NoCheck
  /\ UNCHANGED <<messages, handlerVars, twin, rateLimitSessions, requests, allowedAt, widgetVars>>

\* the cleanup timer fires (49-56)
Cleanup ==
  /\ CleanedUp(rateLimitSessions, now) # rateLimitSessions
  /\ rateLimitSessions' = CleanedUp(rateLimitSessions, now)
  /\ lastCheck' = NoCheck
  /\ UNCHANGED <<messages, handlerVars, twin, now, requests, allowedAt, widgetVars>>

\* what the clients of the server post
Transcripts ==
  { <<Message("user", "My name is Anna")>>,
    <<Message("user", "I am Bob Stone, 555-123-4567, bob@mail.com"),
      Message("user", "Cleaning on Monday at 10:00 AM"),
      Message("user", "Yes, confirm")>> }

RandomIds == {"4fzyo82mvyr"}

NextServer ==
  \/ /\ BagCardinality(requests) < MaxRequests
     /\ \E transcript \in Transcripts : \E random \in RandomIds : Arrive(transcript, random)
  \/ \E request \in BagToSet(requests) :
       \/ RateWaitOver(request)
       \/ \E outcome \in FetchOutcomes : FetchReturns(request, outcome)
       \/ RetryTimerFires(request)
       \/ \E mailOk \in BOOLEAN : Respond(request, mailOk)
  \/ now < MaxTicks * TickMs /\ Elapse(TickMs)

SpecServer == Init /\ [][NextServer]_vars

\* some timer or fetch of a request in flight completes, the clock moving
\* on to the next timer when none is due
Completes ==
  \/ \E request \in BagToSet(requests) :
       \/ RateWaitOver(request)
       \/ \E outcome \in FetchOutcomes : FetchReturns(request, outcome)
       \/ RetryTimerFires(request)
  \/ /\ Waiting # {}
     /\ Elapse(Min({request.wake : request \in Waiting}) - now)

\* callOpenRouterWithRetry alone: calls made for one transcript, in the same
\* millisecond or later, each followed until it returns or throws
NextRetry ==
  \/ /\ BagCardinality(requests) < MaxCalls
     /\ Arrive(<<Message("user", "My name is Anna")>>, "")
  \/ Completes

SpecRetry == Init /\ [][NextRetry]_vars

\* fetch settles and timers fire
SpecRetryFair == SpecRetry /\ WF_vars(Completes)

\* during the burst the API is down or sends the requests away
BurstOutcomes == {outcome \in FetchOutcomes : outcome.kind = "error" \/ outcome.header}

\* a burst: requests with the same first message received within the same
\* millisecond, followed until their calls of callOpenRouterWithRetry end
\* and the server has been idle for longer than the cleanup interval; the
\* clock moves from one timer to the next
NextBurst ==
  \/ /\ BagCardinality(requests) < MaxBurst
     /\ \A request \in BagToSet(requests) : request.arrivedAt = now
     /\ Arrive(<<Message("user", "My name is Anna")>>, "")
  \/ \E request \in BagToSet(requests) :
       \/ RateWaitOver(request)
       \/ \E outcome \in BurstOutcomes : FetchReturns(request, outcome)
       \/ RetryTimerFires(request)
  \/ /\ Waiting # {}
     /\ Elapse(Min({request.wake : request \in Waiting}) - now)
  \/ /\ requests # EmptyBag
     /\ \A request \in BagToSet(requests) : request.pc = "respond"
     /\ DOMAIN rateLimitSessions # {}
     /\ CleanedUp(rateLimitSessions, now) = rateLimitSessions
     /\ Elapse(SESSION_CLEANUP_INTERVAL + TickMs)
  \/ Cleanup

SpecBurst == Init /\ [][NextBurst]_vars

(***************************************************************************)
(* The widgets and the server.  A request of a widget is at "fetch" until  *)
(* the server has answered it or fetch has failed, then at "delay" until   *)
(* the timer of line 62 fires.  The server answers a request in one step,  *)
(* at the time it receives it; the outcome of callOpenRouterWithRetry is   *)
(* external, as in Spec.                                                   *)
(***************************************************************************)
\* onChange of the input box, or a quick reply: both are out of reach while
\* isTyping (the box is disabled, the quick replies are not rendered)
Type(c, text) ==
  /\ ~widgets[c].isTyping
  /\ Len(widgets[c].messages) < 2 * MaxTurns + 1
  /\ widgets' = [widgets EXCEPT ![c].input = text]
  /\ UNCHANGED <<messages, handlerVars, twin, serverVars, posts>>

\* the request sendMessage sends (51-57)
Posted(w) ==
  [ pc |-> "fetch", transcript |-> Append(w.messages, Message("user", w.input)),
    wake |-> 0, reply |-> "", record |-> InitialState ]

\* variant: sendMessage does not set isTyping
Submit_NotTyping(c) ==
  LET w == widgets[c]
  IN  IF trim(w.input) = "" \/ w.isTyping
        THEN UNCHANGED vars
        ELSE /\ widgets' = [widgets EXCEPT ![c] =
                   [w EXCEPT !.messages = Append(w.messages, Message("user", w.input)),
                             !.input = "",
                             !.pending = w.pending \cup {Posted(w)}]]
             /\ UNCHANGED <<messages, handlerVars, twin, serverVars, posts>>

\* sendMessage up to its first await (41-57)
Submit(c) ==
  LET w == widgets[c]
  IN  IF trim(w.input) = "" \/ w.isTyping
        THEN UNCHANGED vars
        ELSE /\ widgets' = [widgets EXCEPT ![c] =
                   [w EXCEPT !.messages = Append(w.messages, Message("user", w.input)),
                             !.input = "",
                             !.isTyping = TRUE,
                             !.pending = w.pending \cup {Posted(w)}]]
             /\ UNCHANGED <<messages, handlerVars, twin, serverVars, posts>>

\* the server receives the request and answers it (route.ts 204-296);
\* sendMessage goes on to the timer (59-68)
Answer(c, request, api, mailOk) ==
  /\ request \in widgets[c].pending
  /\ request.pc = "fetch"
  /\ messages' = request.transcript
  /\ Handle(api, mailOk)
  /\ posts' = posts \cup
       {[conversation |-> c, sessionId |-> getSessionId(request.transcript, now, ""), at |-> now]}
  /\ widgets' = [widgets EXCEPT ![c].pending =
       (@ \ {request}) \cup
         {[request EXCEPT !.pc = "delay", !.wake = now + TypingDelay,
                          !.reply = ReplyText(reply', bookingState', updatedState'),
                          !.record = updatedState']}]
  /\ UNCHANGED <<twin, serverVars>>

\* fetch rejects or the response is not JSON: the catch block (70-76)
Reject(c, request) ==
  /\ request \in widgets[c].pending
  /\ request.pc = "fetch"
  /\ widgets' = [widgets EXCEPT ![c] =
       [@ EXCEPT !.isTyping = FALSE,
                 !.messages = Append(@, Message("assistant", ApologyMessage)),
                 !.pending = @ \ {request}]]
  /\ UNCHANGED <<messages, handlerVars, twin, serverVars, posts>>

\* variant: the timer shows the reply and leaves isTyping as it is
ShowReply_KeepsTyping(c, request) ==
  /\ request \in widgets[c].pending
  /\ request.pc = "delay"
  /\ now >= request.wake
  /\ widgets' = [widgets EXCEPT ![c] =
       [@ EXCEPT !.messages = Append(@, Message("assistant", request.reply)),
                 !.hasBooking = TRUE,
                 !.bookingState = request.record,
                 !.pending = @ \ {request}]]
  /\ UNCHANGED <<messages, handlerVars, twin, serverVars, posts>>

\* the timer of line 62 fires (62-68); every response of the handler that
\* has a reply of status 200 has a bookingState
ShowReply(c, request) ==
  /\ request \in widgets[c].pending
  /\ request.pc = "delay"
  /\ now >= request.wake
  /\ widgets' = [widgets EXCEPT ![c] =
       [@ EXCEPT !.messages = Append(@, Message("assistant", request.reply)),
                 !.hasBooking = TRUE,
                 !.bookingState = request.record,
                 !.isTyping = FALSE,
                 !.pending = @ \ {request}]]
  /\ UNCHANGED <<messages, handlerVars, twin, serverVars, posts>>

\* the timers of the widgets that have not fired
Timers == {request.wake : request \in {q \in UNION {widgets[c].pending : c \in Conversations} : q.pc = "delay"}}

\* time passes up to the next timer; a timer that is due fires first
TypingElapse ==
  /\ Timers # {}
  /\ \A wake \in Timers : now < wake
  /\ now' = Min(Timers)
  /\ UNCHANGED <<messages, handlerVars, twin, rateLimitSessions, requests, lastCheck, allowedAt,
                 widgetVars>>

\* the LLM gives no text: the call fails, or its response has no content
WidgetOutcomes == {api \in ApiOutcomes : api.content = ""}

\* what a request in flight of conversation c does next
Settles(c) ==
  \E request \in widgets[c].pending :
    \/ Reject(c, request)
    \/ ShowReply(c, request)
    \/ \E api \in WidgetOutcomes : \E mailOk \in BOOLEAN : Answer(c, request, api, mailOk)

NextWidget ==
  \/ \E c \in Conversations :
       \/ \E text \in Inputs : Type(c, text)
       \/ Submit(c)
       \/ Settles(c)
  \/ TypingElapse

SpecWidget == Init /\ [][NextWidget]_vars

\* a request in flight of some widget goes on, the clock moving on to the
\* next timer when none is due
WidgetCompletes == TypingElapse \/ \E c \in Conversations : Settles(c)

\* fetch settles and timers fire
SpecWidgetFair == SpecWidget /\ WF_vars(WidgetCompletes)

(***************************************************************************)
(* Properties                                                              *)
(***************************************************************************)
SixFields == {Fields[n] : n \in 1..Len(Fields)}

\* 1-based position of the first empty field, 7 when none is empty
FirstEmpty(state) ==
  LET E == {n \in 1..Len(Fields) : state[Fields[n]] = ""}
  IN  IF E = {} THEN Len(Fields) + 1 ELSE Min(E)

AllFilled(state) == \A f \in SixFields : state[f] # ""

LastMessage == messages[Len(messages)]

\* content of the latest user-authored message of the transcript
LatestUserContent ==
  LET users == userMessages(messages) IN users[Len(users)].content

\* C1: in the record of extractBookingState and in that of
\* updateBookingState, step is the 1-based position of the first empty field
\* in the order name, phone, email, service, date, time, and 7 when all six
\* are filled; a field filled later never lets step skip an earlier empty one.
C1_StepIsFirstEmptyField ==
  served => /\ bookingState.step = FirstEmpty(bookingState)
            /\ updatedState.step = FirstEmpty(updatedState)

\* a later field is filled while an earlier one is empty, and step stays at
\* the earlier one
C1_Witness ==
  /\ served
  /\ bookingState.step = 2
  /\ bookingState.phoneNumber = ""
  /\ bookingState.serviceType # ""
  /\ updatedState.step = 2

\* C2: for a transcript whose last message is user-authored, the returned
\* record has isComplete = TRUE exactly when all six fields are filled
\* (step >= 7) and that message holds "yes", "confirm", "book it" or
\* "correct", ignoring case.
C2_CompleteIffConfirmed ==
  (served /\ LastMessage.role = "user") =>
    ( updatedState.isComplete <=>
        /\ AllFilled(updatedState)
        /\ updatedState.step >= 7
        /\ Affirmative(toLowerCase(LastMessage.content)) )

\* a user confirms a record whose six fields are filled
C2_Witness ==
  /\ served
  /\ LastMessage.role = "user"
  /\ AllFilled(updatedState)
  /\ Affirmative(toLowerCase(LastMessage.content))
  /\ updatedState.isComplete

\* C3 (as claimed): the handler calls sendBookingEmail only in a request
\* whose record has isComplete = TRUE.
C3_EmailOnlyWhenConfirmed ==
  emailAttempted => updatedState.isComplete

\* C4 (as claimed): over the requests of one conversation the booking email
\* is sent at most once.
C4_EmailAtMostOnce ==
  emailsSent <= 1

\* C5 (as claimed): every record with isComplete = TRUE has step = 8, and
\* step is within 1..8.
C5_CompleteIsStepEight ==
  served => /\ updatedState.isComplete => updatedState.step = 8
            /\ bookingState.isComplete => bookingState.step = 8
            /\ updatedState.step \in 1..8
            /\ bookingState.step \in 1..8

\* C5 (amended): every record with isComplete = TRUE has step = 7, and step
\* is within 1..7 in every record.
C5_CompleteIsStepSeven ==
  served => /\ updatedState.isComplete => updatedState.step = 7
            /\ bookingState.isComplete => bookingState.step = 7
            /\ updatedState.step \in 1..7
            /\ bookingState.step \in 1..7

\* a confirmed record
C5_Witness ==
  served /\ updatedState.isComplete /\ updatedState.step = 7

\* what the earliest user message that offers field f offers for it, "" when
\* no user message offers it
RECURSIVE EarliestOffer(_, _, _)
EarliestOffer(msgs, f, n) ==
  IF n > Len(msgs) THEN ""
  ELSE IF msgs[n].role = "user" /\ FieldsOf(msgs[n].content)[f] # "" THEN FieldsOf(msgs[n].content)[f]
  ELSE EarliestOffer(msgs, f, n + 1)

\* the record holds, for every field, the offer of the earliest user message
FieldsAreEarliestOffers ==
  served => \A f \in SixFields :
              /\ bookingState[f] = EarliestOffer(messages, f, 1)
              /\ updatedState[f] = EarliestOffer(messages, f, 1)

\* a request on the extended transcript leaves every non-empty field as it is
FieldsKept ==
  served => \A f \in SixFields :
              /\ bookingState[f] # "" => bookingState'[f] = bookingState[f]
              /\ updatedState[f] # "" => updatedState'[f] = updatedState[f]

\* C6: the value of each field is fixed by the earliest user message from
\* which it can be extracted; whatever messages are appended to a transcript,
\* every field that is non-empty in its record has the same value in the
\* record of the extended transcript.
C6_FieldsLocked ==
  [] FieldsAreEarliestOffers /\ [][FieldsKept]_vars

\* a later user message restates the name differently and the first name stays
C6_Witness ==
  /\ served
  /\ Len(messages) >= 2
  /\ messages[1].role = "user" /\ messages[2].role = "user"
  /\ FieldsOf(messages[1].content).patientName # ""
  /\ FieldsOf(messages[2].content).patientName # ""
  /\ FieldsOf(messages[2].content).patientName # FieldsOf(messages[1].content).patientName
  /\ updatedState.patientName = FieldsOf(messages[1].content).patientName

\* C7: the step computed for an extended transcript is never less than the
\* step computed for the transcript it extends; over a conversation the
\* steps of successive requests do not decrease.
C7_StepNeverDecreases ==
  [][served => /\ bookingState'.step >= bookingState.step
               /\ updatedState'.step >= updatedState.step]_vars

\* a request whose newest message offers none of the fields still missing
C7_Witness ==
  /\ served
  /\ Len(messages) >= 2
  /\ LastMessage.role = "user"
  /\ extractBookingState(SubSeq(messages, 1, Len(messages) - 1)).step \in 2..6
  /\ FieldsOf(LastMessage.content).patientName = ""
  /\ updatedState.step = extractBookingState(SubSeq(messages, 1, Len(messages) - 1)).step

\* the six fields, urgency and step of two records agree
SameRecord(a, b) ==
  /\ \A f \in SixFields : a[f] = b[f]
  /\ a.urgency = b.urgency
  /\ a.step = b.step

\* C8: two transcripts with the same user messages in the same order, which
\* differ only in the presence or content of assistant messages, give the same
\* six fields, urgency and step.
C8_AssistantMessagesIgnored ==
  SameRecord(extractBookingState(messages), extractBookingState(twin))

\* the transcripts differ in an assistant message that holds a name, a phone
\* number and a service, and the user has filled none of these
C8_Witness ==
  /\ userMessages(messages) = userMessages(twin)
  /\ userMessages(messages) # <<>>
  /\ messages # twin
  /\ \E n \in 1..Len(messages) :
       /\ messages[n].role = "assistant"
       /\ FieldsOf(messages[n].content).patientName # ""
       /\ FieldsOf(messages[n].content).phoneNumber # ""
  /\ extractBookingState(messages).phoneNumber = ""

\* C9 (as claimed): for a transcript whose final message is assistant-authored,
\* isComplete of the returned record is decided by the latest user message: it
\* is TRUE exactly when all six fields are filled and that user message is
\* affirmative, whatever the assistant message holds.
C9_ConfirmationFromLatestUser ==
  (served /\ LastMessage.role = "assistant") =>
    ( updatedState.isComplete <=>
        /\ updatedState.step >= 7
        /\ userMessages(messages) # <<>>
        /\ Affirmative(toLowerCase(LatestUserContent)) )

\* C11: in a conversation whose k-th user message supplies exactly the k-th
\* field (name, phone, email, service, date, time), the step after k user
\* messages is k + 1 for k = 0..6, and a seventh user message "yes, confirm"
\* yields isComplete = TRUE.
C11_OneFieldPerMessage ==
  /\ ~served => Len(messages) = 0 /\ extractBookingState(messages).step = 1
  /\ (served /\ Len(messages) <= Len(Fields)) =>
       /\ bookingState.step = Len(messages) + 1
       /\ updatedState.step = Len(messages) + 1
  /\ (served /\ Len(messages) > Len(Fields)) => updatedState.isComplete

\* six messages have given the six fields one by one and the seventh confirms
C11_Witness ==
  /\ served
  /\ Len(messages) = Len(Fields) + 1
  /\ \A k \in 1..Len(Fields) : messages[k].content \in ScriptContents(k)
  /\ messages[Len(Fields) + 1].content = "yes, confirm"
  /\ AllFilled(updatedState)
  /\ updatedState.isComplete

\* the record computed for the transcript without its newest message
RecordBefore == extractBookingState(SubSeq(messages, 1, Len(messages) - 1))

\* C12: every still-empty field is attempted on each user message: whatever
\* the newest user message offers for a field that was empty before it is in
\* the record, so one message fills every empty field it offers (an email and
\* a phone number together) and step can advance by more than one.
C12_EveryEmptyFieldAttempted ==
  (served /\ LastMessage.role = "user") =>
    \A f \in SixFields :
      (RecordBefore[f] = "" /\ FieldsOf(LastMessage.content)[f] # "") =>
        /\ bookingState[f] = FieldsOf(LastMessage.content)[f]
        /\ updatedState[f] = FieldsOf(LastMessage.content)[f]

\* one message gives a phone number and an email, both are taken and step
\* advances by more than one
C12_Witness ==
  /\ served
  /\ LastMessage.role = "user"
  /\ RecordBefore.phoneNumber = "" /\ RecordBefore.email = ""
  /\ FieldsOf(LastMessage.content).phoneNumber # ""
  /\ FieldsOf(LastMessage.content).email # ""
  /\ updatedState.phoneNumber = FieldsOf(LastMessage.content).phoneNumber
  /\ updatedState.email = FieldsOf(LastMessage.content).email
  /\ updatedState.step >= RecordBefore.step + 2

\* the contents that hold 'broken tooth', those that hold a keyword of any
\* service, and those that hold a keyword of a service listed before emergency
BrokenTooth == {c \in Contents : includes(Lowered[c], "broken tooth")}
NamesService ==
  {c \in Contents :
     \E n \in 1..Len(serviceKeywords) : SomeKeyword(Lowered[c], serviceKeywords[n][2])}
NamesOtherService ==
  {c \in Contents :
     \E n \in 1..(Len(serviceKeywords) - 1) : SomeKeyword(Lowered[c], serviceKeywords[n][2])}

\* positions of the user messages that hold a keyword of some service
ServiceMessages == {n \in 1..Len(messages) : messages[n].role = "user" /\ messages[n].content \in NamesService}

\* C13 (as claimed): whenever some user message contains "broken tooth", the
\* record has serviceType = "emergency" and urgency = "emergency".
C13_BrokenToothIsEmergency ==
  (served /\ \E n \in 1..Len(messages) :
               messages[n].role = "user" /\ messages[n].content \in BrokenTooth) =>
    /\ updatedState.serviceType = "emergency"
    /\ updatedState.urgency = "emergency"

\* C13 (amended): when the earliest user message that holds a keyword of any
\* service contains "broken tooth" and no keyword of cleaning, checkup,
\* whitening or filling, the record has serviceType = "emergency" and
\* urgency = "emergency".
C13_FirstServiceBrokenTooth ==
  (served /\ ServiceMessages # {}
          /\ messages[Min(ServiceMessages)].content \in BrokenTooth \ NamesOtherService) =>
    /\ bookingState.serviceType = "emergency" /\ bookingState.urgency = "emergency"
    /\ updatedState.serviceType = "emergency" /\ updatedState.urgency = "emergency"

\* the first service the user names is a broken tooth, and another service
\* is named afterwards
C13_Witness ==
  /\ served
  /\ Cardinality(ServiceMessages) >= 2
  /\ messages[Min(ServiceMessages)].content \in BrokenTooth \ NamesOtherService
  /\ messages[Max(ServiceMessages)].content \in NamesOtherService
  /\ updatedState.serviceType = "emergency"
  /\ updatedState.urgency = "emergency"

\* urgency is "emergency" with the emergency service and "routine" otherwise
UrgencyMatchesService(state) ==
  state.urgency = (IF state.serviceType = "emergency" THEN "emergency" ELSE "routine")

\* C14: in every record of extractBookingState and of updateBookingState,
\* urgency is "emergency" if and only if serviceType is "emergency", and is
\* "routine" otherwise.
C14_UrgencyIffEmergencyService ==
  /\ UrgencyMatchesService(bookingState)
  /\ UrgencyMatchesService(updatedState)

\* a routine service was chosen first and an emergency is mentioned later:
\* the record stays routine
C14_Witness ==
  /\ served
  /\ Cardinality(ServiceMessages) >= 2
  /\ FieldsOf(messages[Max(ServiceMessages)].content).serviceType = "emergency"
  /\ updatedState.serviceType \notin {"", "emergency"}
  /\ updatedState.urgency = "routine"

\* the record extractBookingState starts from, unchanged
Untouched(state) ==
  /\ \A f \in SixFields : state[f] = ""
  /\ state.step = 1
  /\ state.urgency = "routine"
  /\ state.isComplete = FALSE

\* C15: when the message list holds no user-role message (it is empty or
\* holds assistant messages only), the record has its six fields empty,
\* step = 1, urgency = "routine" and isComplete = FALSE.
C15_NoUserMessageNoField ==
  /\ messages = <<>> =>
       /\ Untouched(extractBookingState(messages))
       /\ Untouched(updateBookingState(extractBookingState(messages), LatestContent(messages), messages))
  /\ (served /\ \A n \in 1..Len(messages) : messages[n].role # "user") =>
       Untouched(bookingState) /\ Untouched(updatedState)

\* only the assistant has spoken, it has named a person, a phone number and a
\* service, and its latest message holds "confirm"
C15_Witness ==
  /\ served
  /\ Len(messages) >= 2
  /\ \A n \in 1..Len(messages) : messages[n].role = "assistant"
  /\ \E n \in 1..Len(messages) : FieldsOf(messages[n].content).phoneNumber # ""
  /\ Confirms(LastMessage.content)
  /\ Untouched(updatedState)

\* C16 (as claimed): the extractor never raises: whatever the message list,
\* messages whose content is missing or is not text included, extraction
\* returns a record instead of throwing.
C16_ExtractorNeverRaises ==
  thrownBy # "extractBookingState"

(***************************************************************************)
(* C17: the answer to a request whose LLM call failed                      *)
(***************************************************************************)
\* the record the handler computes from a transcript (215, 252)
RecordOf(transcript) ==
  updateBookingState(extractBookingState(transcript), LatestContent(transcript), transcript)

\* the request is answered in this step, with its LLM call failed
AnswersFailedCall(request) ==
  /\ request.pc = "respond"
  /\ ~request.api.ok
  /\ \E mailOk \in BOOLEAN : Respond(request, mailOk)

\* the reply starts with the fallback text of the step and the notice
StartsWithFallback(text, step) ==
  /\ Len(text) >= 2
  /\ text[1] = Part("fallback", step, "")
  /\ text[2] = Part("notice", 0, "")

\* C17 as stated: whenever a request whose LLM call failed is answered, the
\* status is 200, apiCallSuccessful is false, the reply is the fallback text
\* of the record's step followed by the high-demand notice, and the record
\* is the one computed from the transcript, whatever the call came to
C17_FailedCallGivesFallback ==
  [][\A request \in BagToSet(requests) :
       AnswersFailedCall(request) =>
         /\ status' = 200
         /\ ~apiCallSuccessful'
         /\ StartsWithFallback(reply', updatedState'.step)
         /\ updatedState' = RecordOf(request.messages)]_vars

\* C17, amended: whenever a request whose LLM call failed is answered, the
\* status is 200, apiCallSuccessful is false and the record is the one
\* computed from the transcript; the reply is the fallback text of the
\* record's step followed by the high-demand notice, unless the booking
\* email was sent in this request, and then it is the congratulation alone
C17_FailedCallGivesFallbackUnlessBooked ==
  [][\A request \in BagToSet(requests) :
       AnswersFailedCall(request) =>
         /\ status' = 200
         /\ ~apiCallSuccessful'
         /\ IF emailSent' THEN reply' = <<Part("congratulations", 0, "")>>
                          ELSE StartsWithFallback(reply', updatedState'.step)
         /\ updatedState' = RecordOf(request.messages)]_vars

\* a request whose three attempts failed has been answered with the
\* fallback text and the notice
C17_Witness ==
  /\ status = 200
  /\ ~apiCallSuccessful
  /\ ~emailSent
  /\ StartsWithFallback(reply, updatedState.step)
  /\ \E request \in BagToSet(requests) :
       /\ request.pc = "done"
       /\ request.messages = messages
       /\ request.attempt = maxRetries
       /\ request.error = "OpenRouter API error"

(***************************************************************************)
(* C18: the record of a request depends on its message list alone          *)
(***************************************************************************)
\* the requests that have been answered
Answered == {request \in BagToSet(requests) : request.pc = "done"}

\* C18: any two answered requests with the same message list were given the
\* same record, whenever they arrived, whatever rateLimitSessions held and
\* whatever their LLM calls came to
C18_RecordDependsOnMessagesOnly ==
  \A a \in Answered : \A b \in Answered :
    a.messages = b.messages => a.record = b.record

\* two requests with the same message list have been answered, one after a
\* successful LLM call and one after three failed attempts, under different
\* entries of rateLimitSessions, with a completed booking as their record
C18_Witness ==
  \E a \in Answered : \E b \in Answered :
    /\ a.messages = b.messages
    /\ a.api.ok /\ ~b.api.ok
    /\ a.sessionId # b.sessionId
    /\ a.record = b.record
    /\ a.record.isComplete

(***************************************************************************)
(* C19: the cap on the calls of a session                                  *)
(***************************************************************************)
\* C19: every entry of rateLimitSessions has 1 <= callCount <= 10; a call of
\* checkRateLimit that finds the session's entry with callCount = 10 returns
\* canProceed = false and leaves the entry as it is; a request is at its
\* fetch only when checkRateLimit has returned canProceed = true in the
\* attempt
C19_CallCap ==
  /\ \A id \in DOMAIN rateLimitSessions :
       /\ rateLimitSessions[id].callCount >= 1
       /\ rateLimitSessions[id].callCount <= MAX_CALLS_PER_SESSION
  /\ (lastCheck.made /\ lastCheck.known /\ lastCheck.before.callCount = MAX_CALLS_PER_SESSION)
       => ~lastCheck.canProceed /\ lastCheck.after = lastCheck.before
  /\ \A request \in BagToSet(requests) : request.pc = "fetch" => request.granted

\* checkRateLimit has just denied a call of a session that has made its ten
\* calls, while other requests of the session are still in their loops
C19_Witness ==
  /\ lastCheck.made
  /\ lastCheck.known
  /\ lastCheck.before.callCount = MAX_CALLS_PER_SESSION
  /\ ~lastCheck.canProceed
  /\ rateLimitSessions[lastCheck.sessionId].callCount = MAX_CALLS_PER_SESSION
  /\ \E request \in BagToSet(requests) : request.pc # "respond"

(***************************************************************************)
(* C20: the spacing of the calls of a session                              *)
(***************************************************************************)
\* consecutive allowed calls of a session are at least 2000 ms apart
SpacedCalls ==
  (lastCheck.made /\ lastCheck.canProceed /\ lastCheck.allowedBefore)
    => lastCheck.at - lastCheck.lastAllowed >= MIN_DELAY_BETWEEN_CALLS

\* the time since the session's last allowed call, at the call just made
SinceLastCall == lastCheck.at - lastCheck.before.lastApiCall

\* C20 as stated: consecutive allowed calls of a session are at least
\* 2000 ms apart, and a denied call returns delay = 2000 - (now - lastApiCall)
\* and leaves the entry as it is
C20_SpacingAndDelay ==
  /\ SpacedCalls
  /\ (lastCheck.made /\ ~lastCheck.canProceed)
       => /\ lastCheck.delay = MIN_DELAY_BETWEEN_CALLS - SinceLastCall
          /\ lastCheck.after = lastCheck.before

\* C20, amended: consecutive allowed calls of a session are at least 2000 ms
\* apart; a call denied while the session is below its cap returns
\* delay = 2000 - (now - lastApiCall), which is positive, a call denied at the
\* cap returns delay = 0, and both leave the entry as it is
C20_SpacingAndDelayBelowCap ==
  /\ SpacedCalls
  /\ (lastCheck.made /\ ~lastCheck.canProceed)
       => /\ IF lastCheck.before.callCount < MAX_CALLS_PER_SESSION
               THEN /\ lastCheck.delay = MIN_DELAY_BETWEEN_CALLS - SinceLastCall
                    /\ lastCheck.delay > 0
               ELSE lastCheck.delay = 0
          /\ lastCheck.after = lastCheck.before

\* a call has just been denied one second after the session's last allowed
\* call, with one second to wait
C20_WitnessDenied ==
  /\ lastCheck.made
  /\ ~lastCheck.canProceed
  /\ lastCheck.before.callCount < MAX_CALLS_PER_SESSION
  /\ SinceLastCall = TickMs
  /\ lastCheck.delay = MIN_DELAY_BETWEEN_CALLS - TickMs

(***************************************************************************)
(* C21: the session id and the conversation                                *)
(***************************************************************************)
\* C21: two requests have the same session id, and so are counted against
\* the same entry of rateLimitSessions, exactly when they are requests of
\* the same conversation
C21_SessionIsConversation ==
  \A p \in posts : \A q \in posts :
    (p.conversation = q.conversation) <=> (p.sessionId = q.sessionId)

(***************************************************************************)
(* C22: callOpenRouterWithRetry ends                                       *)
(***************************************************************************)
\* the calls of callOpenRouterWithRetry that have returned or thrown
Ended == {request \in BagToSet(requests) : request.pc = "respond"}

\* the attempt of every call is within 1..maxRetries, a call throws only in
\* its last attempt, and never from line 172
AttemptsBounded ==
  \A request \in BagToSet(requests) :
    /\ request.attempt \in 1..maxRetries
    /\ request.error # "Max retries exceeded"
    /\ (request \in Ended /\ ~request.api.ok) => request.attempt = maxRetries /\ request.error # ""

\* what becomes of request when its fetch comes back with outcome
AfterFetch(request, outcome, after) ==
  /\ requests' = (requests (-) SetToBag({request})) (+) SetToBag({after})
  /\ after.attempt = request.attempt
  /\ IF outcome.kind = "ok"
       THEN after.pc = "respond" /\ after.api = [ok |-> TRUE, content |-> outcome.content]
     ELSE IF request.attempt < maxRetries
       THEN after.pc \in {"retryWait", "backoff"} /\ after.wake > now
     ELSE after.pc = "respond" /\ ~after.api.ok

\* C22: every call of callOpenRouterWithRetry ends, in an attempt within
\* 1..maxRetries: an ok response is returned at once, a 429 or an error is
\* followed by a wait and another attempt while attempt < maxRetries and is
\* thrown in the last attempt, and the throw of line 172 is never reached
C22_RetryLoopEnds ==
  /\ []AttemptsBounded
  /\ [][\A request \in BagToSet(requests) : \A outcome \in FetchOutcomes :
         FetchReturns(request, outcome) =>
           \E after \in BagToSet(requests') : AfterFetch(request, outcome, after)]_vars
  /\ (requests # EmptyBag) ~> (BagToSet(requests) = Ended)

\* two calls have ended: one has thrown in its third attempt, the other
\* has returned a response in an attempt after its first
C22_Witness ==
  \E a \in Ended : \E b \in Ended :
    /\ ~a.api.ok /\ a.attempt = maxRetries
    /\ b.api.ok /\ b.attempt > 1

(***************************************************************************)
(* C23: what updateBookingState changes in the handler                     *)
(***************************************************************************)
\* the fields of a record other than isComplete
RecordFields == SixFields \cup {"urgency", "step"}

\* C23: in every answered request the record returned by updateBookingState
\* has the six fields, the urgency and the step of the record given by
\* extractBookingState, and the step of the fallback text in the reply is
\* the step of the record in the response
C23_UpdateChangesOnlyIsComplete ==
  (served /\ status = 200) =>
    /\ \A f \in RecordFields : updatedState[f] = bookingState[f]
    /\ \A n \in 1..Len(reply) :
         reply[n].kind \in {"fallback", "progress"} => reply[n].step = updatedState.step

\* a request has been answered with the fallback text, and updateBookingState
\* has set isComplete in a record with all six fields
C23_Witness ==
  /\ served /\ status = 200
  /\ updatedState.isComplete /\ ~bookingState.isComplete
  /\ AllFilled(updatedState)
  /\ reply[1].kind = "fallback"

(***************************************************************************)
(* C24: a failure of sendBookingEmail                                      *)
(***************************************************************************)
\* C24: in every answered request, when sendBookingEmail was called and
\* threw, the status is 200, the record is the one computed from the
\* transcript, emailSent is false and the reply ends with the warning;
\* emailSent is true exactly when the reply is the congratulation, and that
\* only when sendBookingEmail was called
C24_EmailFailureNotFatal ==
  served =>
    /\ (emailAttempted /\ ~emailSent) =>
         /\ status = 200
         /\ updatedState = RecordOf(messages)
         /\ Len(reply) >= 2
         /\ reply[Len(reply)] = Part("warning", 0, "")
         /\ reply[Len(reply) - 1] = Part("progress", updatedState.step, "")
    /\ emailSent <=> reply = <<Part("congratulations", 0, "")>>
    /\ emailSent => emailAttempted /\ status = 200
    /\ (\E n \in 1..Len(reply) : reply[n].kind = "warning") => emailAttempted /\ ~emailSent

\* sendBookingEmail has thrown for a confirmed booking, and the request was
\* answered with the warning
C24_Witness ==
  /\ served /\ status = 200
  /\ emailAttempted /\ ~emailSent
  /\ updatedState.isComplete
  /\ reply[Len(reply)].kind = "warning"

(***************************************************************************)
(* C25: the widget keeps one request in flight                             *)
(***************************************************************************)
\* the roles of a transcript alternate, from the welcome message on
Alternates(transcript) ==
  /\ transcript[1] = Message("assistant", WelcomeMessage)
  /\ \A n \in 1..Len(transcript) :
       transcript[n].role = (IF n % 2 = 1 THEN "assistant" ELSE "user")

\* sendMessage is called in conversation c while isTyping or with a blank
\* input
BlockedSubmit(c) ==
  /\ trim(widgets[c].input) = "" \/ widgets[c].isTyping
  /\ Submit(c)

\* every widget has at most one request in flight, and one exactly while
\* isTyping; the transcript of the request is the conversation of the
\* widget, alternates and ends with a user message
OneInFlight ==
  \A c \in Conversations :
    /\ Cardinality(widgets[c].pending) <= 1
    /\ widgets[c].isTyping <=> widgets[c].pending # {}
    /\ \A request \in widgets[c].pending :
         /\ request.transcript = widgets[c].messages
         /\ Alternates(request.transcript)
         /\ request.transcript[Len(request.transcript)].role = "user"
         /\ trim(request.transcript[Len(request.transcript)].content) # ""

\* C25: a submit while isTyping or with a blank input changes nothing, a
\* widget has at most one request in flight, and every transcript posted
\* is the whole conversation, alternating from the welcome message on and
\* ending with the newest user message
C25_OneRequestInFlight ==
  /\ []OneInFlight
  /\ [][\A c \in Conversations : BlockedSubmit(c) => UNCHANGED vars]_vars

\* a widget is typing with the request of its second user message in
\* flight, after the reply to its first has been shown
C25_Witness ==
  \E c \in Conversations :
    /\ widgets[c].isTyping
    /\ widgets[c].hasBooking
    /\ \E request \in widgets[c].pending :
         request.pc = "fetch" /\ Len(request.transcript) = 2 * MaxTurns

(***************************************************************************)
(* C26: the widget leaves the typing state                                 *)
(***************************************************************************)
\* conversation c leaves the typing state in this step: its request in
\* flight ends, and one assistant message is appended, the reply together
\* with the record once the delay is over, or the apology with the record
\* left as it was
LeavesTyping(c) ==
  LET w == widgets[c]
      v == widgets'[c]
  IN  \E request \in w.pending :
        /\ v.pending = w.pending \ {request}
        /\ \/ /\ request.pc = "delay"
              /\ now >= request.wake
              /\ v.messages = Append(w.messages, Message("assistant", request.reply))
              /\ v.hasBooking
              /\ v.bookingState = RecordOf(request.transcript)
           \/ /\ request.pc = "fetch"
              /\ v.messages = Append(w.messages, Message("assistant", ApologyMessage))
              /\ v.hasBooking = w.hasBooking
              /\ v.bookingState = w.bookingState

\* conversation c gets a message from the assistant in this step
AssistantSpeaks(c) ==
  /\ Len(widgets'[c].messages) > Len(widgets[c].messages)
  /\ widgets'[c].messages[Len(widgets'[c].messages)].role = "assistant"

\* C26: a widget that is typing eventually is not; it leaves the typing
\* state with exactly one assistant message appended, the server's reply
\* and record after the delay or the apology with the record unchanged,
\* and gets an assistant message in no other step
C26_TypingEnds ==
  /\ \A c \in Conversations : widgets[c].isTyping ~> ~widgets[c].isTyping
  /\ [][\A c \in Conversations :
         /\ (widgets[c].isTyping /\ ~widgets'[c].isTyping) => LeavesTyping(c)
         /\ AssistantSpeaks(c) => (widgets[c].isTyping /\ ~widgets'[c].isTyping)]_vars

\* one widget has shown the reply of the server, the other the apology,
\* and neither is typing
C26_Witness ==
  \E c \in Conversations : \E d \in Conversations :
    /\ ~widgets[c].isTyping /\ ~widgets[d].isTyping
    /\ widgets[c].hasBooking
    /\ Len(widgets[c].messages) = 3
    /\ ~widgets[d].hasBooking
    /\ Len(widgets[d].messages) = 3
    /\ widgets[d].messages[3].content = ApologyMessage

====
